---- MODULE Spec2Model ----
(***************************************************************************)
(* A model of the speaker-recognition evaluation glue:                     *)
(*   src/src/pl_modules/speaker_recognition_module.py                      *)
(*   src/src/data/batches.py                                               *)
(*                                                                         *)
(* Tensors are records [shape, data] (row-major), so that indexing,        *)
(* squeeze and stack are computed on shapes as torch computes them.        *)
(***************************************************************************)
EXTENDS Integers, Sequences, FiniteSets, TLC

VARIABLES
    embedding_size,   \* self.speaker_embedding_size of the module
    agg_outputs,      \* the per-batch outputs handed to extract_embedding_sample_list
    agg_result,       \* what the last call of extract_embedding_sample_list did
    lst,              \* the list of AudioDataSample handed to a collate function
    batch,            \* what the collate function did with it, and to(device) after
    test_pairs,       \* self.test_pairs: one pair list per test partition
    test_names,       \* self.test_names: one name per test partition
    validation_pairs, \* self.validation_pairs
    pass_parity,      \* tells the current evaluation pass from the one before it
    phase,            \* "idle", the pass under way ("validation", "test"), or "failed"
    val_outputs,      \* what validation_step returned in this pass, step by step
    test_outputs,     \* what test_step returned in this pass, per dataloader
    metric_valid_acc, \* self.metric_valid_acc: the steps it holds since its reset
    val_loss_epoch,   \* the val_loss values handed over with on_epoch=True
    last_batch_size,  \* batch_size of the batch of the last step of this pass
    epoch_end,        \* the epoch-end hook that ran in this pass, if any
    raised,           \* the error that ended this pass, if any
    logged,           \* what log_dict was given in this pass
    eval_calls,       \* the calls of evaluator.evaluate of the last epoch-end hook
    batches_per_epoch,\* the number of training batches of an epoch
    train_epoch,      \* the training epoch under way, from 1
    batch_idx,        \* the batch_idx of the next training_step
    train_steps,      \* the batch_idx of every training_step that returned
    metric_train_acc, \* self.metric_train_acc: the steps it holds since its reset
    metric_train_loss,\* self.metric_train_loss: the steps it holds since its reset
    train_logged,     \* what training_step gave self.log, in order
    train_raised      \* the error that ended training, if any

aggVars == <<embedding_size, agg_outputs, agg_result>>
collateVars == <<lst, batch>>
configVars == <<test_pairs, test_names, validation_pairs>>
passVars == <<pass_parity, phase, val_outputs, test_outputs, metric_valid_acc,
              val_loss_epoch, last_batch_size, epoch_end, raised, logged, eval_calls>>
evalVars == <<configVars, passVars>>
trainVars == <<batches_per_epoch, train_epoch, batch_idx, train_steps,
               metric_train_acc, metric_train_loss, train_logged, train_raised>>
vars == <<embedding_size, agg_outputs, agg_result, lst, batch, evalVars, trainVars>>

(***************************************************************************)
(* Bounds                                                                  *)
(***************************************************************************)
\* most batches in the outputs of one evaluation pass
MaxBatches == 2
\* most keys in the key list of one batch
MaxKeys == 2

\* the embedding sizes a concrete module may have
EmbeddingSizes == {1, 2}

(***************************************************************************)
(* Tensors                                                                 *)
(***************************************************************************)
RECURSIVE Prod(_)
Prod(s) == IF s = <<>> THEN 1 ELSE Head(s) * Prod(Tail(s))

\* a tensor of the given shape whose entries are base+1, base+2, ...
MakeTensor(shape, base) ==
    [shape |-> shape, data |-> [k \in 1..Prod(shape) |-> base + k]]

Rank(t) == Len(t.shape)

\* t.shape[0]
LeadingDim(t) == t.shape[1]

\* t[idx, :] is defined for a tensor of rank >= 2 and idx < shape[0]
\* (idx counts from 1 here)
CanIndexRow(t, idx) == Rank(t) >= 2 /\ idx <= t.shape[1]

\* t[idx, :]
Row(t, idx) ==
    LET rest == Tail(t.shape)
        n    == Prod(rest)
    IN  [shape |-> rest, data |-> SubSeq(t.data, (idx - 1) * n + 1, idx * n)]

\* t.squeeze(): every axis of size 1 is removed
Squeeze(t) ==
    [shape |-> SelectSeq(t.shape, LAMBDA d : d # 1), data |-> t.data]

\* t[None, :]
Unsqueeze0(t) == [shape |-> <<1>> \o t.shape, data |-> t.data]

RECURSIVE ConcatData(_)
ConcatData(ts) == IF ts = <<>> THEN <<>> ELSE Head(ts).data \o ConcatData(Tail(ts))

\* torch.stack(ts) of tensors of one shape
Stack(ts) == [shape |-> <<Len(ts)>> \o ts[1].shape, data |-> ConcatData(ts)]

(***************************************************************************)
(* extract_embedding_sample_list                                           *)
(***************************************************************************)
\* the value of d["embedding"]: a tensor, or a list of tensors (multi-view)
TensorEmbedding(t) == [is_list |-> FALSE, views |-> <<t>>]
ListEmbedding(ts)  == [is_list |-> TRUE, views |-> ts]

EmbeddingSample(sample_id, embedding) ==
    [sample_id |-> sample_id, embedding |-> embedding]

Returned(v) == [raised |-> "", value |-> v]
Raise(e)    == [raised |-> e, value |-> <<>>]

\* a slip: the list is kept from one call to the next
KeptEmbeddingList ==
    IF eval_calls = <<>> THEN <<>> ELSE eval_calls[Len(eval_calls)].embedding_list

\* the list a call starts from
NewEmbeddingList == <<>>

\* the check of the batch dimension
BatchDimensionOk(d) ==
    IF d.embedding.is_list
    THEN Len(d.sample_id) = LeadingDim(d.embedding.views[1])
    ELSE Len(d.sample_id) = LeadingDim(d.embedding.views[1])

\* a slip: every sample of a batch is given the batch's first row
SampleEmbeddingFirstRow(d, idx) ==
    [is_list |-> d.embedding.is_list,
     views   |-> [v \in 1..Len(d.embedding.views) |->
                     Squeeze(Row(d.embedding.views[v], 1))]]

\* the embedding of the sample at idx
SampleEmbedding(d, idx) ==
    [is_list |-> d.embedding.is_list,
     views   |-> [v \in 1..Len(d.embedding.views) |->
                     Squeeze(Row(d.embedding.views[v], idx))]]

\* the loop over enumerate(sample_id_list), from idx on
RECURSIVE AppendSamples(_, _, _)
AppendSamples(d, idx, embedding_list) ==
    IF idx > Len(d.sample_id)
    THEN Returned(embedding_list)
    ELSE IF \E v \in 1..Len(d.embedding.views) :
                ~CanIndexRow(d.embedding.views[v], idx)
         THEN Raise("IndexError")
         ELSE AppendSamples(d, idx + 1,
                  Append(embedding_list,
                         EmbeddingSample(d.sample_id[idx], SampleEmbedding(d, idx))))

\* what a failed batch dimension check does
OnBadBatchDimension(embedding_list) == Raise("ValueError")

\* the loop over outputs, from batch b on
RECURSIVE ExtractFrom(_, _, _)
ExtractFrom(outputs, b, embedding_list) ==
    IF b > Len(outputs)
    THEN Returned(embedding_list)
    ELSE IF ~BatchDimensionOk(outputs[b])
         THEN OnBadBatchDimension(embedding_list)
         ELSE LET r == AppendSamples(outputs[b], 1, embedding_list)
              IN  IF r.raised # "" THEN r ELSE ExtractFrom(outputs, b + 1, r.value)

extract_embedding_sample_list(outputs) ==
    ExtractFrom(outputs, 1, NewEmbeddingList)

RECURSIVE TotalKeysOf(_)
\* the number of keys over all batches of the outputs
TotalKeysOf(outputs) ==
    IF outputs = <<>> THEN 0
    ELSE Len(Head(outputs).sample_id) + TotalKeysOf(Tail(outputs))

\* no call of extract_embedding_sample_list yet
NoResult == [called |-> FALSE, raised |-> "", value |-> <<>>]

AggIdle ==
    /\ agg_outputs = <<>>
    /\ agg_result = NoResult

(***************************************************************************)
(* Batches and their collate functions (batches.py)                        *)
(***************************************************************************)
\* most samples in the list handed to a collate function
MaxSamples == 3

\* the numbers of frames a sample's audio may have
FrameCounts == {1, 3, 5, 8}
Tasks == {"speaker", "speech"}
Devices == {"cpu", "cuda"}

\* the constant that pads
PadValue == 0

Max(a, b) == IF a >= b THEN a ELSE b

RECURSIVE MaxOf(_)
MaxOf(ns) == IF ns = <<>> THEN 0 ELSE Max(Head(ns), MaxOf(Tail(ns)))

\* t.shape[-1]
LastDim(t) == t.shape[Len(t.shape)]

\* sample i of a list: its key, its audio of shape [1, frames], and its ground
\* truth container, which holds the entries of its task unless it is empty
MakeSample(i, key, frames, task, has_gt) ==
    [key |-> key,
     audio |-> MakeTensor(<<1, frames>>, 100 * i),
     ground_truth_container |->
        [speaker_id_idx |-> has_gt /\ task = "speaker",
         transcription  |-> has_gt /\ task = "speech",
         transcription_int_sequence |-> has_gt /\ task = "speech"],
     speaker_id_idx |-> MakeTensor(<<>>, 500 + i),
     transcription  |-> 700 + i,
     transcription_int_sequence |-> MakeTensor(<<i>>, 900 + 10 * i)]

\* torch's default_collate of a list of strings: the list itself
CollateStrings(keys) ==
    IF keys = <<>> THEN Raise("IndexError") ELSE Returned(keys)

\* torch's default_collate of a list of tensors: they are stacked, and must have
\* one shape
torch_default_collate(ts) ==
    IF ts = <<>> THEN Raise("IndexError")
    ELSE IF \E i \in 1..Len(ts) : ts[i].shape # ts[1].shape
         THEN Raise("RuntimeError")
         ELSE Returned(Stack(ts))

\* a tensor of rank 1 padded on the right to max_len
PadRight(t, max_len) ==
    [shape |-> <<max_len>>,
     data  |-> t.data \o [k \in 1..(max_len - t.shape[1]) |-> PadValue]]

\* collate_append_constant: the samples are padded on the right to the longest of
\* them and stacked; an empty list, or a sample with no axis to pad, is refused
collate_append_constant(ts) ==
    IF ts = <<>> THEN Raise("InvalidInput")
    ELSE IF \E i \in 1..Len(ts) : Rank(ts[i]) # 1
         THEN Raise("InvalidInput")
         ELSE LET max_len == MaxOf([i \in 1..Len(ts) |-> ts[i].shape[1]])
              IN  Returned(Stack([i \in 1..Len(ts) |-> PadRight(ts[i], max_len)]))

\* [sample.audio.shape[0] ...]: a slip that reads the channel axis
InputLengthsFirstAxis(l) == [i \in 1..Len(l) |-> l[i].audio.shape[1]]

\* [sample.audio.shape[-1] for sample in lst]
InputLengths(l) == [i \in 1..Len(l) |-> LastDim(l[i].audio)]

Keys(l) == [i \in 1..Len(l) |-> l[i].key]
Audios(l) == [i \in 1..Len(l) |-> l[i].audio]
SqueezedAudios(l) == [i \in 1..Len(l) |-> Squeeze(l[i].audio)]

NoTensor == [shape |-> <<0>>, data |-> <<>>]

\* the fields of a batch (gt_strings and gt_lengths: ground_truth_strings and
\* ground_truth_sequence_length of a speech batch)
Batch(kind, batch_size, keys, audio, lengths, gt, gt_strings, gt_lengths, debug) ==
    [kind |-> kind, batch_size |-> batch_size, keys |-> keys,
     audio_input |-> audio, audio_input_lengths |-> lengths,
     ground_truth |-> gt,
     ground_truth_strings |-> gt_strings,
     ground_truth_sequence_length |-> gt_lengths,
     debug_info |-> debug, device |-> "cpu"]

NoBatch == Batch("", 0, <<>>, NoTensor, <<>>, NoTensor, <<>>, <<>>, {})

RaiseBatch(e) == [raised |-> e, value |-> NoBatch]

\* SpeakerClassificationDataBatch.get_gt_container over the list
SpeakerGroundTruths(l) ==
    IF \E i \in 1..Len(l) : ~l[i].ground_truth_container.speaker_id_idx
    THEN Raise("ValueError")
    ELSE Returned([i \in 1..Len(l) |-> l[i].speaker_id_idx])

\* SpeechRecognitionDataBatch.get_gt_container over the list
SpeechGroundTruthsOk(l) ==
    \A i \in 1..Len(l) :
        /\ l[i].ground_truth_container.transcription
        /\ l[i].ground_truth_container.transcription_int_sequence

\* a slip: the speaker batch is padded where it should be stacked
SpeakerAudioPadded(l) == collate_append_constant(SqueezedAudios(l))

\* audio_input of SpeakerClassificationDataBatch.default_collate_fn
SpeakerAudioStacked(l) == torch_default_collate(Audios(l))

\* the rest of a speaker batch, once keys and audio_input are there
SpeakerBatch(l, keys, audio_input) ==
    LET gts == SpeakerGroundTruths(l)
        ground_truth == IF gts.raised # "" THEN gts ELSE torch_default_collate(gts.value)
    IN  IF ground_truth.raised # "" THEN RaiseBatch(ground_truth.raised)
        ELSE Returned(Batch("speaker", Len(l), keys, audio_input, InputLengths(l),
                            ground_truth.value, <<>>, <<>>,
                            {l[i].key : i \in 1..Len(l)}))

\* SpeakerClassificationDataBatch.default_collate_fn
default_collate_fn(l) ==
    LET keys == CollateStrings(Keys(l))
        audio_input == SpeakerAudioStacked(l)
    IN  IF keys.raised # "" THEN RaiseBatch(keys.raised)
        ELSE IF audio_input.raised # "" THEN RaiseBatch(audio_input.raised)
        ELSE SpeakerBatch(l, keys.value, audio_input.value)

\* audio_input of pad_right_collate_fn
PadRightAudio(l) == collate_append_constant(SqueezedAudios(l))

\* SpeakerClassificationDataBatch.pad_right_collate_fn
pad_right_collate_fn(l) ==
    LET keys == CollateStrings(Keys(l))
        audio_input == PadRightAudio(l)
    IN  IF keys.raised # "" THEN RaiseBatch(keys.raised)
        ELSE IF audio_input.raised # "" THEN RaiseBatch(audio_input.raised)
        ELSE SpeakerBatch(l, keys.value, audio_input.value)

\* SpeechRecognitionDataBatch.default_collate_fn
speech_default_collate_fn(l) ==
    IF ~SpeechGroundTruthsOk(l) THEN RaiseBatch("ValueError")
    ELSE LET network_input == collate_append_constant(SqueezedAudios(l))
             ground_truth  == collate_append_constant(
                                 [i \in 1..Len(l) |-> l[i].transcription_int_sequence])
         IN  IF network_input.raised # "" THEN RaiseBatch(network_input.raised)
             ELSE IF ground_truth.raised # "" THEN RaiseBatch(ground_truth.raised)
             ELSE Returned(Batch("speech", Len(l), Keys(l), network_input.value,
                     InputLengths(l), ground_truth.value,
                     [i \in 1..Len(l) |-> l[i].transcription],
                     [i \in 1..Len(l) |-> LastDim(l[i].transcription_int_sequence)],
                     {l[i].key : i \in 1..Len(l)}))

\* SpeakerClassificationDataBatch.to / SpeechRecognitionDataBatch.to
to(b, device) == [b EXCEPT !.device = device]

NotCollated == [fn |-> "", moved |-> FALSE, raised |-> "", value |-> NoBatch]

CollateIdle ==
    /\ lst = <<>>
    /\ batch = NotCollated


(***************************************************************************)
(* training_step and the running training metrics                          *)
(***************************************************************************)
\* most training epochs of a run
MaxEpochs == 2

\* the numbers of batches an epoch may have
EpochLengths == {1, 2, 100, 101, 150, 201}

\* the batch_idx interval of `if batch_idx % 100 == 0`
LogInterval == 100

\* a slip: the log is made on the last batch_idx of every hundred
LogsBeforeInterval(idx) == idx % LogInterval = LogInterval - 1

\* batch_idx % 100 == 0
LogsAt(idx) == idx % LogInterval = 0

\* a slip: the metric keeps its state over a log
KeptMetric(metric) == metric

\* metric.reset()
ResetMetric(metric) == <<>>

\* metric(...): the metric takes in the batch of this step
UpdateMetric(metric, step) == Append(metric, step)

\* metric.compute(): the value over all the metric holds
ComputeMetric(metric) == metric

\* the body shared by _log_train_acc and _log_train_loss
LogTrainMetric(name, metric, step, idx) ==
    LET updated == UpdateMetric(metric, step)
    IN  IF LogsAt(idx)
        THEN [metric |-> ResetMetric(updated),
              logged |-> <<[name |-> name, step |-> step, batch_idx |-> idx,
                            value |-> ComputeMetric(updated)]>>]
        ELSE [metric |-> updated, logged |-> <<>>]

\* _log_train_acc
log_train_acc(metric, step, idx) == LogTrainMetric("train_acc", metric, step, idx)

\* _log_train_loss
log_train_loss(metric, step, idx) == LogTrainMetric("train_loss", metric, step, idx)

\* the shapes compute_speaker_embedding may return in training
TrainShapes(E) == {<<1, E>>, <<E>>, <<1, E + 1>>}

\* training_step, as step number `step` of the run
training_step(acc, loss, step, idx, embedding) ==
    IF Rank(embedding) # 2 \/ LastDim(embedding) # embedding_size
    THEN [raised |-> "AssertionError", metric_train_acc |-> acc,
          metric_train_loss |-> loss, logged |-> <<>>]
    ELSE LET a == log_train_acc(acc, step, idx)
             l == log_train_loss(loss, step, idx)
         IN  [raised |-> "", metric_train_acc |-> a.metric,
              metric_train_loss |-> l.metric, logged |-> a.logged \o l.logged]

TrainIdle ==
    /\ batches_per_epoch = 0
    /\ train_epoch = 0
    /\ batch_idx = 0
    /\ train_steps = <<>>
    /\ metric_train_acc = <<>>
    /\ metric_train_loss = <<>>
    /\ train_logged = <<>>
    /\ train_raised = ""

(***************************************************************************)
(* The evaluation passes of SpeakerRecognitionLightningModule              *)
(***************************************************************************)
\* most test partitions (dataloaders) of a module
MaxPartitions == 2
\* most steps of one dataloader in one pass
MaxSteps == 2

\* the batch sizes the dataloaders give
BatchSizes == {1, 2}
\* how the test partitions are named: each by its number; all alike; or the
\* second one "threshold_" followed by the name of the first
Namings == {"distinct", "same", "prefixed"}

\* the names of P partitions, each as the pieces its log keys are made of
TestNames(P, naming) ==
    [idx \in 1..P |->
        CASE naming = "distinct" -> <<ToString(idx)>>
          [] naming = "same"     -> <<"1">>
          [] naming = "prefixed" ->
                IF idx = 2 THEN <<"threshold_", "1">> ELSE <<ToString(idx)>>]

EvaluationPair(same_speaker, sample1_id, sample2_id) ==
    [same_speaker |-> same_speaker, sample1_id |-> sample1_id,
     sample2_id |-> sample2_id]

\* the pair list of partition idx (0: validation): a pair of one speaker, a pair
\* of two, and idx more, over the samples with keys 1 and 2
PairList(idx) ==
    <<EvaluationPair(TRUE, 1, 1), EvaluationPair(FALSE, 1, 2)>>
        \o [k \in 1..idx |-> EvaluationPair(TRUE, 2, 2)]

\* f"test_eer_{key}" and f"test_eer_threshold_{key}"
EerKey(key) == <<"test_eer_">> \o key
EerThresholdKey(key) == <<"test_eer_", "threshold_">> \o key

EmptyDict == [k \in {} |-> 0]
Put(dict, k, v) == [x \in (DOMAIN dict) \cup {k} |-> IF x = k THEN v ELSE dict[x]]

\* what the evaluator computes: a value of the pairs and of the embedding list
Score(metric, pairs, embedding_list) ==
    [metric |-> metric, pairs |-> pairs, embedding_list |-> embedding_list]

NoScores == [eer |-> 0, eer_threshold |-> 0]

\* evaluator.evaluate: every key of every pair must be among the embeddings
evaluate(pairs, embedding_list) ==
    LET have == {embedding_list[i].sample_id : i \in 1..Len(embedding_list)}
    IN  IF \E i \in 1..Len(pairs) :
              pairs[i].sample1_id \notin have \/ pairs[i].sample2_id \notin have
        THEN [raised |-> "MissingKey", value |-> NoScores]
        ELSE [raised |-> "",
              value |-> [eer |-> Score("eer", pairs, embedding_list),
                         eer_threshold |-> Score("eer_threshold", pairs, embedding_list)]]

\* t.Tensor([v])
TensorOf(v) == [shape |-> <<1>>, data |-> <<v>>]

\* evaluate_embeddings; calls: the calls of evaluator.evaluate it made
evaluate_embeddings(outputs, pairs) ==
    LET embedding_list == extract_embedding_sample_list(outputs)
        result == evaluate(pairs, embedding_list.value)
    IN  IF embedding_list.raised # ""
        THEN [raised |-> embedding_list.raised, value |-> NoScores, calls |-> <<>>]
        ELSE [raised |-> result.raised,
              value  |-> [eer |-> TensorOf(result.value.eer),
                          eer_threshold |-> TensorOf(result.value.eer_threshold)],
              calls  |-> <<[pairs |-> pairs, embedding_list |-> embedding_list.value]>>]

\* a slip: every partition is evaluated against the first pair list
FirstPairs(idx) == test_pairs[1]

\* self.test_pairs[idx]
PartitionPairs(idx) == test_pairs[idx]

\* a slip: every partition is evaluated on the first partition's outputs
FirstOutputs(outputs, idx) == outputs[1]

\* outputs[idx]
PartitionOutputs(outputs, idx) == outputs[idx]

\* a slip: what was evaluated before a failure is logged all the same
LogWhatThereIs(result_dict) == result_dict

\* an exception leaves test_epoch_end before log_dict: nothing is logged
LogNothing(result_dict) == EmptyDict

\* the loop of test_epoch_end, from partition idx on
RECURSIVE TestLoop(_, _, _, _)
TestLoop(outputs, idx, result_dict, calls) ==
    IF idx > Len(outputs)
    THEN [raised |-> "", logged |-> result_dict, calls |-> calls]
    ELSE LET key == test_names[idx]
             results == evaluate_embeddings(PartitionOutputs(outputs, idx),
                                            PartitionPairs(idx))
         IN  IF results.raised # ""
             THEN [raised |-> results.raised, logged |-> LogNothing(result_dict),
                   calls |-> calls \o results.calls]
             ELSE TestLoop(outputs, idx + 1,
                      Put(Put(result_dict, EerKey(key), results.value.eer),
                          EerThresholdKey(key), results.value.eer_threshold),
                      calls \o results.calls)

\* test_epoch_end
test_epoch_end(outputs) ==
    TestLoop(IF Len(test_pairs) = 1 THEN <<outputs>> ELSE outputs, 1, EmptyDict, <<>>)

\* validation_epoch_end; reset: whether self.metric_valid_acc.reset() is reached
validation_epoch_end(outputs) ==
    LET results == evaluate_embeddings(outputs, validation_pairs)
    IN  IF results.raised # ""
        THEN [raised |-> results.raised, logged |-> LogNothing(EmptyDict),
              calls |-> results.calls, reset |-> FALSE]
        ELSE [raised |-> "",
              logged |-> Put(Put(EmptyDict, <<"val_eer">>, results.value.eer),
                             <<"val_acc">>, [compute |-> metric_valid_acc]),
              calls |-> results.calls, reset |-> TRUE]

NoOutput == [sample_id |-> <<>>, embedding |-> TensorEmbedding(NoTensor)]

\* the shapes compute_speaker_embedding may return for a batch of n samples:
\* [n, E], E alone, a wrong number of rows, a wrong embedding size
EmbeddingShapes(n, E) == {<<n, E>>, <<E>>, <<n + 1, E>>, <<n, E + 1>>}

\* validation_step: the output dict it returns, unless an assert fails
validation_step(b, embedding) ==
    IF Rank(embedding) # 2 \/ LastDim(embedding) # embedding_size
    THEN [raised |-> "AssertionError", value |-> NoOutput]
    ELSE [raised |-> "",
          value |-> [sample_id |-> b.keys, embedding |-> TensorEmbedding(embedding)]]

\* a slip: test_step takes batches of any size
AnyBatchSize(batch_size) == TRUE

\* test_step goes on for a batch of one sample only
ExpectedBatchSize(batch_size) == batch_size = 1

\* test_step: the output dict it returns, unless it raises
test_step(b, computed) ==
    LET embedding == IF Rank(computed) = 1 /\ computed.shape[1] = embedding_size
                     THEN Unsqueeze0(computed) ELSE computed
    IN  IF ~ExpectedBatchSize(b.batch_size)
        THEN [raised |-> "ValueError", value |-> NoOutput]
        ELSE IF \/ Rank(embedding) # 2
                \/ embedding.shape[1] # b.batch_size
                \/ embedding.shape[2] # embedding_size
        THEN [raised |-> "AssertionError", value |-> NoOutput]
        ELSE [raised |-> "",
              value |-> [sample_id |-> b.keys,
                         embedding |-> TensorEmbedding(Stack(<<embedding>>))]]

\* the batch of n samples whose keys follow `before`
StepBatch(before, n) ==
    default_collate_fn([j \in 1..n |-> MakeSample(j, before + j, 3, "speaker", TRUE)]).value

\* what the embeddings of a step are numbered from
EmbeddingBase(parity, dataloader, step) == 1000 * parity + 100 * dataloader + 10 * step

NoPass ==
    /\ pass_parity = 0
    /\ phase = "idle"
    /\ val_outputs = <<>>
    /\ test_outputs = <<>>
    /\ metric_valid_acc = <<>>
    /\ val_loss_epoch = 0
    /\ last_batch_size = 0
    /\ epoch_end = ""
    /\ raised = ""
    /\ logged = EmptyDict
    /\ eval_calls = <<>>

EvalIdle ==
    /\ test_pairs = <<>>
    /\ test_names = <<>>
    /\ validation_pairs = <<>>
    /\ NoPass

\* the module as constructed: P partitions with a name and a pair list each
EvalInit ==
    /\ embedding_size \in EmbeddingSizes
    /\ AggIdle
    /\ CollateIdle
    /\ TrainIdle
    /\ \E P \in 1..MaxPartitions :
          /\ test_names \in {TestNames(P, naming) : naming \in Namings}
          /\ test_pairs = [idx \in 1..P |-> PairList(idx)]
    /\ validation_pairs = PairList(0)
    /\ NoPass

\* a pass starts: the outputs and the log of the pass before it are gone
StartPass(kind) ==
    /\ phase = "idle"
    /\ phase' = kind
    /\ pass_parity' = 1 - pass_parity
    /\ val_outputs' = <<>>
    /\ test_outputs' = IF kind = "test" THEN [d \in 1..Len(test_pairs) |-> <<>>] ELSE <<>>
    /\ val_loss_epoch' = 0
    /\ last_batch_size' = 0
    /\ epoch_end' = ""
    /\ raised' = ""
    /\ logged' = EmptyDict
    /\ UNCHANGED <<metric_valid_acc, eval_calls, configVars, embedding_size, aggVars,
                   collateVars, trainVars>>

StartValidation == StartPass("validation")

StartTest == StartPass("test")

\* the hook returns, or its error e ends the run
EndsWith(e) ==
    /\ phase' = IF e = "" THEN "idle" ELSE "failed"
    /\ raised' = e

ValidationStep ==
    /\ phase = "validation"
    /\ Len(val_outputs) < MaxSteps
    /\ \E n \in BatchSizes : \E shape \in EmbeddingShapes(n, embedding_size) :
          LET step == Len(val_outputs) + 1
              r == validation_step(StepBatch(TotalKeysOf(val_outputs), n),
                       MakeTensor(shape, EmbeddingBase(pass_parity, 0, step)))
          IN  /\ last_batch_size' = n
              /\ IF r.raised # ""
                 THEN /\ EndsWith(r.raised)
                      /\ UNCHANGED <<val_outputs, metric_valid_acc, val_loss_epoch>>
                 ELSE /\ val_outputs' = Append(val_outputs, r.value)
                      /\ metric_valid_acc' =
                            Append(metric_valid_acc, <<pass_parity, step>>)
                      /\ val_loss_epoch' = val_loss_epoch + 1
                      /\ UNCHANGED <<phase, raised>>
    /\ UNCHANGED <<pass_parity, test_outputs, epoch_end, logged, eval_calls, configVars,
                   embedding_size, aggVars, collateVars, trainVars>>

ValidationEpochEnd ==
    /\ phase = "validation"
    /\ LET r == validation_epoch_end(val_outputs)
       IN  /\ EndsWith(r.raised)
           /\ logged' = r.logged
           /\ eval_calls' = r.calls
           /\ metric_valid_acc' = IF r.reset THEN <<>> ELSE metric_valid_acc
    /\ epoch_end' = "validation_epoch_end"
    /\ UNCHANGED <<pass_parity, val_outputs, test_outputs, val_loss_epoch,
                   last_batch_size, configVars, embedding_size, aggVars, collateVars, trainVars>>

\* the dataloaders are run one after the other
TestStep ==
    /\ phase = "test"
    /\ \E dl \in 1..Len(test_outputs) : \E n \in BatchSizes :
       \E shape \in EmbeddingShapes(n, embedding_size) :
          /\ Len(test_outputs[dl]) < MaxSteps
          /\ \A later \in (dl + 1)..Len(test_outputs) : test_outputs[later] = <<>>
          /\ LET step == Len(test_outputs[dl]) + 1
                 r == test_step(StepBatch(TotalKeysOf(test_outputs[dl]), n),
                          MakeTensor(shape, EmbeddingBase(pass_parity, dl, step)))
             IN  /\ last_batch_size' = n
                 /\ IF r.raised # ""
                    THEN /\ EndsWith(r.raised)
                         /\ UNCHANGED test_outputs
                    ELSE /\ test_outputs' =
                               [test_outputs EXCEPT ![dl] = Append(@, r.value)]
                         /\ UNCHANGED <<phase, raised>>
    /\ UNCHANGED <<pass_parity, val_outputs, metric_valid_acc, val_loss_epoch, epoch_end,
                   logged, eval_calls, configVars, embedding_size, aggVars, collateVars, trainVars>>

\* with one dataloader the hook is given the flat list of its outputs
TestEpochEnd ==
    /\ phase = "test"
    /\ LET r == test_epoch_end(IF Len(test_pairs) = 1 THEN test_outputs[1]
                               ELSE test_outputs)
       IN  /\ EndsWith(r.raised)
           /\ logged' = r.logged
           /\ eval_calls' = r.calls
    /\ epoch_end' = "test_epoch_end"
    /\ UNCHANGED <<pass_parity, val_outputs, test_outputs, metric_valid_acc,
                   val_loss_epoch, last_batch_size, configVars, embedding_size, aggVars,
                   collateVars, trainVars>>

EvalNext ==
    \/ StartValidation
    \/ ValidationStep
    \/ ValidationEpochEnd
    \/ StartTest
    \/ TestStep
    \/ TestEpochEnd

SpecEval == EvalInit /\ [][EvalNext]_vars

(***************************************************************************)
(* The collate functions, called on a list of samples                      *)
(***************************************************************************)
\* the lists of samples: n samples, their keys ascending or descending, each with
\* its number of frames; the container of sample `empty` (if any) holds nothing
SampleLists ==
    UNION {
        { [i \in 1..n |->
              MakeSample(i, IF descending THEN 10 + n - i ELSE 10 + i, frames[i],
                         task, i # empty)] :
            frames \in [1..n -> FrameCounts], descending \in BOOLEAN,
            task \in Tasks, empty \in 0..n }
        : n \in 0..MaxSamples }

CollateInit ==
    /\ embedding_size = 1
    /\ AggIdle
    /\ lst \in SampleLists
    /\ batch = NotCollated
    /\ EvalIdle
    /\ TrainIdle

Collated(fn, r) ==
    /\ batch.fn = ""
    /\ batch' = [fn |-> fn, moved |-> FALSE, raised |-> r.raised, value |-> r.value]
    /\ UNCHANGED <<lst, aggVars, evalVars, trainVars>>

DefaultCollate == Collated("default_collate_fn", default_collate_fn(lst))

PadRightCollate == Collated("pad_right_collate_fn", pad_right_collate_fn(lst))

SpeechDefaultCollate ==
    Collated("speech_default_collate_fn", speech_default_collate_fn(lst))

\* batch.to(device)
ToDevice ==
    /\ batch.fn # ""
    /\ batch.raised = ""
    /\ \E device \in Devices :
          batch' = [batch EXCEPT !.moved = TRUE, !.value = to(batch.value, device)]
    /\ UNCHANGED <<lst, aggVars, evalVars, trainVars>>

CollateNext == DefaultCollate \/ PadRightCollate \/ SpeechDefaultCollate \/ ToDevice

SpecCollate == CollateInit /\ [][CollateNext]_vars

(***************************************************************************)
(* The outputs of one evaluation pass, batch by batch                      *)
(***************************************************************************)
\* the forms d["embedding"] takes: [B, E], [B, 1, E], or a list of two [B, E]
Forms == {"2d", "3d", "list"}
\* rows of the embedding array minus keys of the key list
Deltas == {-1, 0, 1}

KeyOf(b, j) == 10 * b + j

\* the output dict of batch b: nkeys keys; the array has nkeys + delta rows
\* (delta2: the second view of a list)
MakeOutput(b, nkeys, form, delta, delta2, E) ==
    [sample_id |-> [j \in 1..nkeys |-> KeyOf(b, j)],
     embedding |->
        CASE form = "2d" -> TensorEmbedding(MakeTensor(<<nkeys + delta, E>>, 100 * b))
          [] form = "3d" -> TensorEmbedding(MakeTensor(<<nkeys + delta, 1, E>>, 100 * b))
          [] form = "list" ->
                ListEmbedding(<<MakeTensor(<<nkeys + delta, E>>, 100 * b),
                                MakeTensor(<<nkeys + delta2, E>>, 1000 + 100 * b)>>)]

AggInit ==
    /\ embedding_size \in EmbeddingSizes
    /\ AggIdle
    /\ CollateIdle
    /\ EvalIdle
    /\ TrainIdle

\* one more batch output is collected for the pass
CollectOutput ==
    /\ ~agg_result.called
    /\ Len(agg_outputs) < MaxBatches
    /\ \E nkeys \in 0..MaxKeys, form \in Forms, delta \in Deltas, delta2 \in Deltas :
          /\ nkeys + delta >= 0
          /\ nkeys + delta2 >= 0
          /\ form # "list" => delta2 = 0
          /\ agg_outputs' = Append(agg_outputs,
                 MakeOutput(Len(agg_outputs) + 1, nkeys, form, delta, delta2,
                            embedding_size))
    /\ UNCHANGED <<embedding_size, agg_result, collateVars, evalVars, trainVars>>

\* the pass ends: the outputs are aggregated
Aggregate ==
    /\ ~agg_result.called
    /\ LET r == extract_embedding_sample_list(agg_outputs)
       IN  agg_result' = [called |-> TRUE, raised |-> r.raised, value |-> r.value]
    /\ UNCHANGED <<embedding_size, agg_outputs, collateVars, evalVars, trainVars>>

\* the next pass starts from no outputs
NextPass ==
    /\ agg_result.called
    /\ agg_outputs' = <<>>
    /\ agg_result' = NoResult
    /\ UNCHANGED <<embedding_size, collateVars, evalVars, trainVars>>

AggNext == CollectOutput \/ Aggregate \/ NextPass

SpecAggregate == AggInit /\ [][AggNext]_vars

(***************************************************************************)
(* Training: training_step batch after batch, epoch after epoch            *)
(***************************************************************************)
TrainInit ==
    /\ embedding_size \in EmbeddingSizes
    /\ AggIdle
    /\ CollateIdle
    /\ EvalIdle
    /\ batches_per_epoch \in EpochLengths
    /\ train_epoch = 1
    /\ batch_idx = 0
    /\ train_steps = <<>>
    /\ metric_train_acc = <<>>
    /\ metric_train_loss = <<>>
    /\ train_logged = <<>>
    /\ train_raised = ""

TrainingStep ==
    /\ train_raised = ""
    /\ train_epoch <= MaxEpochs
    /\ batch_idx < batches_per_epoch
    /\ \E shape \in TrainShapes(embedding_size) :
          LET step == Len(train_steps) + 1
              r == training_step(metric_train_acc, metric_train_loss, step, batch_idx,
                                 MakeTensor(shape, 0))
          IN  /\ train_raised' = r.raised
              /\ metric_train_acc' = r.metric_train_acc
              /\ metric_train_loss' = r.metric_train_loss
              /\ train_logged' = train_logged \o r.logged
              /\ IF r.raised = ""
                 THEN /\ train_steps' = Append(train_steps, batch_idx)
                      /\ batch_idx' = batch_idx + 1
                 ELSE UNCHANGED <<train_steps, batch_idx>>
    /\ UNCHANGED <<batches_per_epoch, train_epoch, embedding_size, agg_outputs,
                   agg_result, collateVars, evalVars>>

\* the epoch is over: batch_idx starts again at 0
TrainingEpochEnd ==
    /\ train_raised = ""
    /\ train_epoch <= MaxEpochs
    /\ batch_idx = batches_per_epoch
    /\ train_epoch' = train_epoch + 1
    /\ batch_idx' = 0
    /\ UNCHANGED <<batches_per_epoch, train_steps, metric_train_acc, metric_train_loss,
                   train_logged, train_raised, embedding_size, agg_outputs, agg_result,
                   collateVars, evalVars>>

TrainNext ==
    \/ TrainingStep
    \/ TrainingEpochEnd

SpecTrain == TrainInit /\ [][TrainNext]_vars

(***************************************************************************)
(* Claims about extract_embedding_sample_list (SpecAggregate)              *)
(***************************************************************************)
RECURSIVE KeysBefore(_, _)
\* the number of keys in the batches before batch b
KeysBefore(outputs, b) ==
    IF b <= 1 THEN 0
    ELSE KeysBefore(outputs, b - 1) + Len(outputs[b - 1].sample_id)

TotalKeys(outputs) == KeysBefore(outputs, Len(outputs) + 1)

\* batch d is a key list plus an array whose leading dimension is the number of keys
ArrayBatch(d) ==
    /\ ~d.embedding.is_list
    /\ LeadingDim(d.embedding.views[1]) = Len(d.sample_id)

ArrayOutputs(outputs) == \A b \in 1..Len(outputs) : ArrayBatch(outputs[b])

\* the same samples, one batch per sample
RECURSIVE Singletons(_)
Singletons(outputs) ==
    IF outputs = <<>> THEN <<>>
    ELSE LET d == Head(outputs)
             t == d.embedding.views[1]
         IN  [i \in 1..Len(d.sample_id) |->
                 [sample_id |-> <<d.sample_id[i]>>,
                  embedding |-> TensorEmbedding(
                      [shape |-> <<1>> \o Tail(t.shape), data |-> Row(t, i).data])]]
             \o Singletons(Tail(outputs))

\* the claim's shape without what the sample carries: one sample per key, in
\* batch order then in-batch order, whatever the batch boundaries
OneSamplePerKey(Carried(_, _)) ==
    (agg_result.called /\ ArrayOutputs(agg_outputs)) =>
        /\ agg_result.raised = ""
        /\ Len(agg_result.value) = TotalKeys(agg_outputs)
        /\ \A b \in 1..Len(agg_outputs) : \A i \in 1..Len(agg_outputs[b].sample_id) :
              LET s == agg_result.value[KeysBefore(agg_outputs, b) + i]
              IN  /\ s.sample_id = agg_outputs[b].sample_id[i]
                  /\ ~s.embedding.is_list
                  /\ s.embedding.views = <<Carried(agg_outputs[b].embedding.views[1], i)>>
        /\ extract_embedding_sample_list(Singletons(agg_outputs)).raised = ""
        /\ extract_embedding_sample_list(Singletons(agg_outputs)).value = agg_result.value

SqueezedRow(t, i) == Squeeze(Row(t, i))

\* C1 as stated: the sample for the i-th key of a batch carries row i of that
\* batch's embedding array (with one sample per key, in order, independent of the
\* batch boundaries).
C1_CarriesRow == OneSamplePerKey(Row)

\* C1 as amended: the list holds one sample per key, in batch order then in-batch
\* order, is the same for the one-batch-per-sample split of the same samples, and
\* the sample for the i-th key of a batch carries row i of that batch's embedding
\* array with its axes of size 1 squeezed out.
C1_CarriesSqueezedRow == OneSamplePerKey(SqueezedRow)

\* two batches, one of them with two keys, aggregated into three samples
C1_Witness ==
    /\ agg_result.called
    /\ ArrayOutputs(agg_outputs)
    /\ Len(agg_outputs) = 2
    /\ Len(agg_outputs[2].sample_id) = 2
    /\ Len(agg_result.value) >= 3

\* some array of batch d has a leading dimension that is not the number of keys
Mismatched(d) ==
    \E v \in 1..Len(d.embedding.views) :
        LeadingDim(d.embedding.views[v]) # Len(d.sample_id)

\* C2: whenever some batch of the outputs has a key list whose length differs from
\* the leading dimension of its embedding array (of any of the arrays of a
\* multi-view list), the call fails and returns no embedding list.
C2_MismatchFails ==
    (agg_result.called /\ \E b \in 1..Len(agg_outputs) : Mismatched(agg_outputs[b]))
        => agg_result.raised # ""

(***************************************************************************)
(* Claims about the collate functions (SpecCollate)                        *)
(***************************************************************************)
Produced == batch.fn # "" /\ batch.raised = ""

Frames(l) == [i \in 1..Len(l) |-> l[i].audio.shape[2]]

EqualLengths(l) == \A i \in 1..Len(l) : Frames(l)[i] = Frames(l)[1]

\* C5: every batch a collate function produces from a non-empty list of N samples
\* has len(keys) = len(audio_input_lengths) = batch_size = N and an audio array of
\* leading dimension N, with keys and lengths in the input order (also for N = 1),
\* and to(device) keeps batch_size, keys and lengths.
C5_BatchInvariant ==
    (Produced /\ Len(lst) >= 1) =>
        LET b == batch.value
            N == Len(lst)
        IN  /\ b.batch_size = N
            /\ Len(b.keys) = N
            /\ Len(b.audio_input_lengths) = N
            /\ LeadingDim(b.audio_input) = N
            /\ \A i \in 1..N :
                  /\ b.keys[i] = lst[i].key
                  /\ b.audio_input_lengths[i] = Frames(lst)[i]

\* a batch of one sample, produced by pad_right_collate_fn and moved to a device
C5_Witness ==
    /\ Produced
    /\ batch.fn = "pad_right_collate_fn"
    /\ batch.moved
    /\ batch.value.device = "cuda"
    /\ Len(lst) = 1
    /\ batch.value.audio_input.shape = <<1, 5>>

\* the batch pad-right collation yields for the list: padding axis as long as the
\* longest sample, lengths recorded, content first and the fill after it
PadRightBatchOf(l, b) ==
    LET N == Len(l)
        max_len == MaxOf(Frames(l))
    IN  /\ b.audio_input.shape = <<N, max_len>>
        /\ b.audio_input_lengths = Frames(l)
        /\ \A i \in 1..N : \A k \in 1..max_len :
              b.audio_input.data[(i - 1) * max_len + k] =
                 IF k <= Frames(l)[i] THEN l[i].audio.data[k] ELSE PadValue

SpeakerSamples(l) ==
    \A i \in 1..Len(l) : l[i].ground_truth_container.speaker_id_idx

\* C6: for any non-empty list of N variable-length samples pad_right_collate_fn
\* yields a batch whose padding axis is as long as the longest sample, whose
\* lengths are the samples' lengths in input order, and in which each sample's
\* content is the prefix of its row and the fill follows it.
C6_PadRight ==
    (batch.fn = "pad_right_collate_fn" /\ Len(lst) >= 1 /\ SpeakerSamples(lst)) =>
        /\ batch.raised = ""
        /\ PadRightBatchOf(lst, batch.value)

\* what does hold of pad_right_collate_fn: the same, for samples of two frames or
\* more (squeeze() leaves their frame axis alone)
PadRightFromTwoFrames ==
    (/\ batch.fn = "pad_right_collate_fn" /\ Len(lst) >= 1 /\ SpeakerSamples(lst)
     /\ \A i \in 1..Len(lst) : Frames(lst)[i] >= 2) =>
        /\ batch.raised = ""
        /\ PadRightBatchOf(lst, batch.value)

DefaultModes == {"default_collate_fn", "speech_default_collate_fn"}

RECURSIVE SamplesOf(_)
SamplesOf(outputs) ==
    IF outputs = <<>> THEN <<>>
    ELSE LET d == Head(outputs)
         IN  [i \in 1..Len(d.sample_id) |->
                 EmbeddingSample(d.sample_id[i],
                     TensorEmbedding(SqueezedRow(d.embedding.views[1], i)))]
             \o SamplesOf(Tail(outputs))

\* the batch outputs the k-th evaluation of the pass is about
OutputsOfCall(k) ==
    IF epoch_end = "validation_epoch_end" THEN val_outputs ELSE test_outputs[k]

TestPassed == epoch_end = "test_epoch_end" /\ raised = ""

\* the values of a partition, from its own outputs and its own pair list
OwnScore(metric, idx) ==
    TensorOf(Score(metric, test_pairs[idx], SamplesOf(test_outputs[idx])))

\* C3 as stated: after a test pass over P named partitions, for every partition
\* the log holds test_eer_<name> and test_eer_threshold_<name>, each computed from
\* that partition's own batch outputs and own pair list (P = 1 included).
C3_EveryPartitionReported ==
    TestPassed =>
        \A idx \in 1..Len(test_pairs) :
            /\ EerKey(test_names[idx]) \in DOMAIN logged
            /\ EerThresholdKey(test_names[idx]) \in DOMAIN logged
            /\ logged[EerKey(test_names[idx])] = OwnScore("eer", idx)
            /\ logged[EerThresholdKey(test_names[idx])] = OwnScore("eer_threshold", idx)

\* the assignments to result_dict in the order the partitions make them
ResultWrites ==
    [w \in 1..(2 * Len(test_pairs)) |->
        LET idx == (w + 1) \div 2
        IN  IF w % 2 = 1
            THEN [key |-> EerKey(test_names[idx]), value |-> OwnScore("eer", idx)]
            ELSE [key |-> EerThresholdKey(test_names[idx]),
                  value |-> OwnScore("eer_threshold", idx)]]

\* C3 as amended: after a test pass over P named partitions the log holds exactly
\* the keys test_eer_<name> and test_eer_threshold_<name> of the partitions, and
\* under each key the value of the last partition that wrote it, computed from that
\* partition's own batch outputs and own pair list; a partition whose key is
\* written again by a later partition is not reported under that key.
C3_LastWriterReported ==
    TestPassed =>
        /\ DOMAIN logged = {ResultWrites[w].key : w \in DOMAIN ResultWrites}
        /\ \A w \in DOMAIN ResultWrites :
              (\A later \in (w + 1)..Len(ResultWrites) :
                    ResultWrites[later].key # ResultWrites[w].key)
                 => logged[ResultWrites[w].key] = ResultWrites[w].value

\* a test pass of two partitions whose four keys are all different
C3_Witness ==
    /\ TestPassed
    /\ Len(test_pairs) = 2
    /\ Cardinality(DOMAIN logged) = 4

\* C4: when the epoch-end hook of a pass fails, nothing of the pass is logged,
\* the values of partitions evaluated before the failure included; and
\* extract_embedding_sample_list gives every evaluation the whole list of its
\* outputs and gives nothing when it fails.
C4_NothingOnFailure ==
    /\ (epoch_end # "" /\ raised # "") => logged = EmptyDict
    /\ epoch_end # "" =>
          /\ \A k \in 1..Len(eval_calls) :
                Len(eval_calls[k].embedding_list) = TotalKeys(OutputsOfCall(k))
          /\ LET failing == Len(eval_calls) + 1
                 r == extract_embedding_sample_list(OutputsOfCall(failing))
             IN  (raised \in {"ValueError", "IndexError"}) =>
                     r.raised = raised /\ r.value = <<>>

\* a test pass whose first partition was evaluated and whose second one failed
C4_Witness ==
    /\ epoch_end = "test_epoch_end"
    /\ raised = "MissingKey"
    /\ Len(test_pairs) = 2
    /\ Len(eval_calls) = 2
    /\ evaluate(eval_calls[1].pairs, eval_calls[1].embedding_list).raised = ""

\* the pass and the dataloader an embedding value was computed in
PassOf(v) == v \div 1000
DataloaderOf(v) == (v % 1000) \div 100

\* C8: the embedding list evaluated in a pass is exactly the samples of the batch
\* outputs of that pass and that partition; no value in it was computed in another
\* pass or for another partition.
C8_PassScoped ==
    epoch_end # "" =>
        \A k \in 1..Len(eval_calls) :
            LET embedding_list == eval_calls[k].embedding_list
                dataloader == IF epoch_end = "validation_epoch_end" THEN 0 ELSE k
            IN  /\ embedding_list = SamplesOf(OutputsOfCall(k))
                /\ \A n \in 1..Len(embedding_list) :
                      LET t == embedding_list[n].embedding.views[1]
                      IN  \A x \in 1..Len(t.data) :
                              /\ PassOf(t.data[x]) = pass_parity
                              /\ DataloaderOf(t.data[x]) = dataloader

\* the second pass on a module: a test pass of two partitions, both evaluated
C8_Witness ==
    /\ pass_parity = 0
    /\ TestPassed
    /\ Len(eval_calls) = 2
    /\ Len(eval_calls[2].embedding_list) = 2

\* C10: test_step raises ValueError for a batch whose size is not 1 and for no
\* other; every output it returns has one key and passes the batch-dimension
\* check; the N outputs of a dataloader aggregate without error to N samples, the
\* n-th keyed by the key of the n-th step.
C10_TestStepOutputs ==
    /\ (phase = "failed" /\ epoch_end = "" /\ test_outputs # <<>>) =>
          (raised = "ValueError" <=> last_batch_size # 1)
    /\ \A dl \in 1..Len(test_outputs) :
          LET r == extract_embedding_sample_list(test_outputs[dl])
          IN  /\ \A n \in 1..Len(test_outputs[dl]) :
                    /\ Len(test_outputs[dl][n].sample_id) = 1
                    /\ BatchDimensionOk(test_outputs[dl][n])
              /\ r.raised = ""
              /\ Len(r.value) = Len(test_outputs[dl])
              /\ \A n \in 1..Len(test_outputs[dl]) :
                    r.value[n].sample_id = test_outputs[dl][n].sample_id[1]
    /\ epoch_end = "test_epoch_end" => raised \notin {"ValueError", "IndexError"}

\* a dataloader of two accepted steps, aggregated into two samples
C10_Witness ==
    /\ epoch_end = "test_epoch_end"
    /\ Len(test_outputs[1]) = 2
    /\ eval_calls # <<>>
    /\ Len(eval_calls[1].embedding_list) = 2

(***************************************************************************)
(* Claims about training_step (SpecTrain)                                  *)
(***************************************************************************)
\* the entries of the log under one name
LoggedAs(name) == SelectSeq(train_logged, LAMBDA e : e.name = name)

\* the step of the log before the n-th one of a list (0: there is none)
PreviousLogStep(entries, n) == IF n = 1 THEN 0 ELSE entries[n - 1].step

\* the steps after step `from`, up to and with step `upto`
StepsBetween(from, upto) == [k \in 1..(upto - from) |-> from + k]

LastLogStep(entries) == IF entries = <<>> THEN 0 ELSE entries[Len(entries)].step

\* what C9 says of one of the two metrics
LoggedEveryHundred(name, metric) ==
    LET entries == LoggedAs(name)
    IN  /\ \A k \in 1..Len(train_steps) :
              (train_steps[k] % 100 = 0) <=>
                  (\E n \in 1..Len(entries) : entries[n].step = k)
        /\ \A n \in 1..Len(entries) :
              /\ entries[n].batch_idx = train_steps[entries[n].step]
              /\ n > 1 => entries[n - 1].step < entries[n].step
              /\ entries[n].value =
                    StepsBetween(PreviousLogStep(entries, n), entries[n].step)
        /\ metric = StepsBetween(LastLogStep(entries), Len(train_steps))

\* C9: train_acc and train_loss are logged at the steps whose batch_idx is a
\* multiple of 100 and at no other; the metric is reset right after each log and
\* only then; each logged value is computed from the batches after the previous log
\* up to the logging one, over epochs too.
C9_LoggedEveryHundred ==
    /\ LoggedEveryHundred("train_acc", metric_train_acc)
    /\ LoggedEveryHundred("train_loss", metric_train_loss)

\* a second epoch whose first log takes in the end of the first epoch, after a
\* log at batch_idx 100
C9_Witness ==
    /\ train_epoch = 2
    /\ \E n \in 1..Len(train_logged) :
          train_logged[n].batch_idx = 0 /\ Len(train_logged[n].value) > 1
    /\ \E n \in 1..Len(train_logged) : train_logged[n].batch_idx = 100

====
